---- MODULE Spec2Model ----
(***************************************************************************)
(* A model of libredex/ReferencedState.h: the per-element record of        *)
(* reference flags, ProGuard keep flags, keep modifiers and the atomic     *)
(* keep-rule counter, with its operations and derived predicates.          *)
(***************************************************************************)
EXTENDS Integers, Sequences, FiniteSets, TLC

\* ---------------------------------------------------------------- bounds
\* The number of calls made in one behaviour.
MaxCalls == 3
\* The number of threads that call into one record concurrently.
NumThreads == 2

Records == {"a", "b"}
Threads == 1..NumThreads

\* ------------------------------------------------ std::atomic<unsigned int>
\* An unsigned int is 32 bits wide.  Its value is kept as two 16-bit limbs,
\* value = hi * Limb + lo, so that 2^32 - 1 is representable.
Limb == 256 * 256

UIntZero == [hi |-> 0, lo |-> 0]
UIntOne == [hi |-> 0, lo |-> 1]
UIntMax == [hi |-> Limb - 1, lo |-> Limb - 1]

\* c <= d and c < d as unsigned ints.
UIntLeq(c, d) == c.hi < d.hi \/ (c.hi = d.hi /\ c.lo <= d.lo)

UIntLess(c, d) == c.hi < d.hi \/ (c.hi = d.hi /\ c.lo < d.lo)

\* m_keep_count++ : unsigned arithmetic, modulo 2^32.
UIntInc(c) ==
    IF c.lo + 1 < Limb
    THEN [hi |-> c.hi, lo |-> c.lo + 1]
    ELSE [hi |-> (c.hi + 1) % Limb, lo |-> 0]

\* ------------------------------------------------------------ the record
\* A default-constructed ReferencedState (the member initializers).
InitRecord ==
    [ m_bytype |-> FALSE,
      m_bystring |-> FALSE,
      m_computed |-> TRUE,
      m_keep |-> FALSE,
      m_assumenosideeffects |-> FALSE,
      m_blanket_keepnames |-> FALSE,
      m_whyareyoukeeping |-> FALSE,
      m_set_allowshrinking |-> FALSE,
      m_unset_allowshrinking |-> FALSE,
      m_set_allowobfuscation |-> FALSE,
      m_unset_allowobfuscation |-> FALSE,
      m_keep_name |-> FALSE,
      m_keep_count |-> UIntZero ]

\* ------------------------------------------------------------- predicates
allowshrinking(s) == ~s.m_unset_allowshrinking /\ s.m_set_allowshrinking

allowobfuscation(s) == ~s.m_unset_allowobfuscation /\ s.m_set_allowobfuscation

\* A keep rule always forbids deletion: the shrinking modifier is ignored.
can_delete_keep_wins(s) == ~s.m_bytype /\ ~s.m_keep

can_delete(s) == ~s.m_bytype /\ (~s.m_keep \/ allowshrinking(s))

\* The shrinking modifier is left out of the renaming decision.
can_rename_ignoring_shrinking(s) ==
    /\ ~s.m_keep_name
    /\ ~s.m_bystring
    /\ (~s.m_keep \/ allowobfuscation(s))

can_rename(s) ==
    /\ ~s.m_keep_name
    /\ ~s.m_bystring
    /\ (~s.m_keep \/ allowobfuscation(s))
    /\ ~allowshrinking(s)

keep(s) == s.m_keep

assumenosideeffects(s) == s.m_assumenosideeffects

is_blanket_names_kept(s) == s.m_blanket_keepnames /\ s.m_keep_count = UIntOne

report_whyareyoukeeping(s) == s.m_whyareyoukeeping

is_referenced_by_string(s) == s.m_bystring

is_referenced_by_type(s) == s.m_bytype

\* ------------------------------------------------------------- operations
\* Each operation is the record it leaves behind when called on record s.
\* Variants of ref_by_string: m_bytype is not set; m_computed is set to
\* from_code; m_computed is cleared whatever from_code is.
ref_by_string_no_type(s, from_code) ==
    [s EXCEPT !.m_bystring = TRUE,
              !.m_computed = s.m_computed /\ from_code]

ref_by_string_recompute(s, from_code) ==
    [s EXCEPT !.m_bytype = TRUE,
              !.m_bystring = TRUE,
              !.m_computed = from_code]

ref_by_string_pin(s, from_code) ==
    [s EXCEPT !.m_bytype = TRUE,
              !.m_bystring = TRUE,
              !.m_computed = FALSE]

\* Variant of ref_by_string: m_computed is left alone.
ref_by_string_unpinned(s, from_code) ==
    [s EXCEPT !.m_bytype = TRUE, !.m_bystring = TRUE]

ref_by_string(s, from_code) ==
    [s EXCEPT !.m_bytype = TRUE,
              !.m_bystring = TRUE,
              !.m_computed = s.m_computed /\ from_code]

\* Variant of ref_by_type: it marks the string reference as well.
ref_by_type_sets_string(s) == [s EXCEPT !.m_bytype = TRUE, !.m_bystring = TRUE]

ref_by_type(s) == [s EXCEPT !.m_bytype = TRUE]

\* Variants of clear_if_compute: m_computed is not consulted; only
\* m_bytype is cleared.
clear_if_compute_always(s) ==
    [s EXCEPT !.m_bytype = FALSE, !.m_bystring = FALSE]

clear_if_compute_type_only(s) ==
    IF s.m_computed
    THEN [s EXCEPT !.m_bytype = FALSE]
    ELSE s

\* Variant of clear_if_compute: the rule counter is reset for the recompute.
clear_if_compute_resets_count(s) ==
    IF s.m_computed
    THEN [s EXCEPT !.m_bytype = FALSE, !.m_bystring = FALSE,
                   !.m_keep_count = UIntZero]
    ELSE s

clear_if_compute(s) ==
    IF s.m_computed
    THEN [s EXCEPT !.m_bytype = FALSE, !.m_bystring = FALSE]
    ELSE s

set_keep(s) == [s EXCEPT !.m_keep = TRUE]

\* Variant of set_keep_name: it marks the element as kept, too.
set_keep_name_sets_keep(s) == [s EXCEPT !.m_keep_name = TRUE, !.m_keep = TRUE]

set_keep_name(s) == [s EXCEPT !.m_keep_name = TRUE]

\* Variant of set_allowshrinking: the later call wins, set takes back unset.
set_allowshrinking_clears_unset(s) ==
    [s EXCEPT !.m_set_allowshrinking = TRUE, !.m_unset_allowshrinking = FALSE]

set_allowshrinking(s) == [s EXCEPT !.m_set_allowshrinking = TRUE]

\* Variant of unset_allowshrinking: one flag for the pair, unset clears it.
unset_allowshrinking_clears_set(s) ==
    [s EXCEPT !.m_set_allowshrinking = FALSE]

unset_allowshrinking(s) == [s EXCEPT !.m_unset_allowshrinking = TRUE]

set_allowobfuscation(s) == [s EXCEPT !.m_set_allowobfuscation = TRUE]

unset_allowobfuscation(s) == [s EXCEPT !.m_unset_allowobfuscation = TRUE]

set_assumenosideeffects(s) == [s EXCEPT !.m_assumenosideeffects = TRUE]

set_blanket_keepnames(s) == [s EXCEPT !.m_blanket_keepnames = TRUE]

increment_keep_count(s) == [s EXCEPT !.m_keep_count = UIntInc(s.m_keep_count)]

set_whyareyoukeeping(s) == [s EXCEPT !.m_whyareyoukeeping = TRUE]

\* Variants of operator=: the atomic counter is not copied; m_keep_name is
\* not copied.
operator_assign_keeps_count(s, other) ==
    [other EXCEPT !.m_keep_count = s.m_keep_count]

operator_assign_skips_keep_name(s, other) ==
    [other EXCEPT !.m_keep_name = s.m_keep_name]

\* this = other: every member is overwritten with other's, the counter with
\* the value other's counter has when it is loaded.
operator_assign(s, other) ==
    [ m_bytype |-> other.m_bytype,
      m_bystring |-> other.m_bystring,
      m_computed |-> other.m_computed,
      m_keep |-> other.m_keep,
      m_assumenosideeffects |-> other.m_assumenosideeffects,
      m_blanket_keepnames |-> other.m_blanket_keepnames,
      m_whyareyoukeeping |-> other.m_whyareyoukeeping,
      m_set_allowshrinking |-> other.m_set_allowshrinking,
      m_unset_allowshrinking |-> other.m_unset_allowshrinking,
      m_set_allowobfuscation |-> other.m_set_allowobfuscation,
      m_unset_allowobfuscation |-> other.m_unset_allowobfuscation,
      m_keep_name |-> other.m_keep_name,
      m_keep_count |-> other.m_keep_count ]

\* ------------------------------------------------------------------ state
VARIABLES
    rs,      \* rs[r]: the ReferencedState object r
    calls,   \* calls[r]: what has been called on object r so far
    last,    \* the call that completed last: the operation, the object it
             \* was called on, its argument, the object's record before
             \* the call, the object it read from (the right-hand side
             \* of an assignment, else the object itself), and whether
             \* the call before was clear_if_compute() on the same object
    pc,      \* pc[t]: the call thread t is inside, or "idle"
    loc,     \* loc[t]: the locals of the call thread t is inside
    ncalls   \* the number of calls made

vars == <<rs, calls, last, pc, loc, ncalls>>

\* The call log of an object, reduced to what the properties speak about.
\*   unset_shr, unset_obf   unset_allow... has been called
\*   set_shr                set_allowshrinking has been called
\*   unset_shr_cur, unset_obf_cur
\*                          unset_allow... has been called since the object
\*                          was last assigned to
\*   typ                    ref_by_type has been called
\*   str_code, str_other    ref_by_string(true), ref_by_string(false) has been
\*                          called
\*   only_refs              only ref_by_type / ref_by_string / clear_if_compute
\*                          have been called
\*   incs                   the number of increment_keep_count calls, or
\*                          MaxCalls + 1 for any larger number
NoCalls ==
    [ unset_shr |-> FALSE, unset_obf |-> FALSE, set_shr |-> FALSE,
      unset_shr_cur |-> FALSE, unset_obf_cur |-> FALSE,
      typ |-> FALSE, str_code |-> FALSE, str_other |-> FALSE,
      only_refs |-> TRUE, incs |-> 0 ]

NoCall ==
    [ op |-> "none", rec |-> "a", arg |-> FALSE, pre |-> InitRecord,
      src |-> "a", after_clear |-> FALSE ]

\* The locals of a call: its argument from_code, the value it has loaded
\* from m_computed, and the loads and stores it has still to perform.
NoLocals == [arg |-> FALSE, tmp |-> FALSE, todo |-> {}]

Min(x, y) == IF x < y THEN x ELSE y

Init ==
    /\ rs = [r \in Records |-> InitRecord]
    /\ calls = [r \in Records |-> NoCalls]
    /\ last = NoCall
    /\ pc = [t \in Threads |-> "idle"]
    /\ loc = [t \in Threads |-> NoLocals]
    /\ ncalls = 0

\* One complete call of operation op on object r, reading object o,
\* leaving record s2 and call log c2.
CallFrom(r, o, op, arg, s2, c2) ==
    /\ ncalls < MaxCalls
    /\ \A t \in Threads : pc[t] = "idle"
    /\ rs' = [rs EXCEPT ![r] = s2]
    /\ calls' = [calls EXCEPT ![r] = c2]
    /\ last' = [ op |-> op, rec |-> r, arg |-> arg, pre |-> rs[r],
                 src |-> o,
                 after_clear |-> (last.op = "clear_if_compute" /\ last.rec = r) ]
    /\ ncalls' = ncalls + 1
    /\ UNCHANGED <<pc, loc>>

Call(r, op, arg, s2, c2) == CallFrom(r, r, op, arg, s2, c2)

Other(c) == [c EXCEPT !.only_refs = FALSE]

Do_ref_by_string(r, from_code) ==
    Call(r, "ref_by_string", from_code, ref_by_string(rs[r], from_code),
         IF from_code
         THEN [calls[r] EXCEPT !.str_code = TRUE]
         ELSE [calls[r] EXCEPT !.str_other = TRUE])

Do_ref_by_type(r) ==
    Call(r, "ref_by_type", FALSE, ref_by_type(rs[r]),
         [calls[r] EXCEPT !.typ = TRUE])

Do_clear_if_compute(r) ==
    Call(r, "clear_if_compute", FALSE, clear_if_compute(rs[r]), calls[r])

Do_set_keep(r) ==
    Call(r, "set_keep", FALSE, set_keep(rs[r]), Other(calls[r]))

Do_set_keep_name(r) ==
    Call(r, "set_keep_name", FALSE, set_keep_name(rs[r]), Other(calls[r]))

Do_set_allowshrinking(r) ==
    Call(r, "set_allowshrinking", FALSE, set_allowshrinking(rs[r]),
         [Other(calls[r]) EXCEPT !.set_shr = TRUE])

Do_unset_allowshrinking(r) ==
    Call(r, "unset_allowshrinking", FALSE, unset_allowshrinking(rs[r]),
         [Other(calls[r]) EXCEPT !.unset_shr = TRUE, !.unset_shr_cur = TRUE])

Do_set_allowobfuscation(r) ==
    Call(r, "set_allowobfuscation", FALSE, set_allowobfuscation(rs[r]),
         Other(calls[r]))

Do_unset_allowobfuscation(r) ==
    Call(r, "unset_allowobfuscation", FALSE, unset_allowobfuscation(rs[r]),
         [Other(calls[r]) EXCEPT !.unset_obf = TRUE, !.unset_obf_cur = TRUE])

Do_set_assumenosideeffects(r) ==
    Call(r, "set_assumenosideeffects", FALSE, set_assumenosideeffects(rs[r]),
         Other(calls[r]))

Do_set_blanket_keepnames(r) ==
    Call(r, "set_blanket_keepnames", FALSE, set_blanket_keepnames(rs[r]),
         Other(calls[r]))

Do_increment_keep_count(r) ==
    Call(r, "increment_keep_count", FALSE, increment_keep_count(rs[r]),
         [Other(calls[r]) EXCEPT !.incs = Min(calls[r].incs + 1, MaxCalls + 1)])

Do_set_whyareyoukeeping(r) ==
    Call(r, "set_whyareyoukeeping", FALSE, set_whyareyoukeeping(rs[r]),
         Other(calls[r]))

\* r = o.  With r and o the same object the guard this != &other fails and
\* nothing is written.
Do_operator_assign(r, o) ==
    CallFrom(r, o, "operator_assign", FALSE,
             IF r # o THEN operator_assign(rs[r], rs[o]) ELSE rs[r],
             IF r # o
             THEN [Other(calls[r]) EXCEPT !.unset_shr_cur = FALSE,
                                          !.unset_obf_cur = FALSE]
             ELSE Other(calls[r]))

Next ==
    \/ \E r \in Records, from_code \in BOOLEAN : Do_ref_by_string(r, from_code)
    \/ \E r \in Records : Do_ref_by_type(r)
    \/ \E r \in Records : Do_clear_if_compute(r)
    \/ \E r \in Records : Do_set_keep(r)
    \/ \E r \in Records : Do_set_keep_name(r)
    \/ \E r \in Records : Do_set_allowshrinking(r)
    \/ \E r \in Records : Do_unset_allowshrinking(r)
    \/ \E r \in Records : Do_set_allowobfuscation(r)
    \/ \E r \in Records : Do_unset_allowobfuscation(r)
    \/ \E r \in Records : Do_set_assumenosideeffects(r)
    \/ \E r \in Records : Do_set_blanket_keepnames(r)
    \/ \E r \in Records : Do_increment_keep_count(r)
    \/ \E r \in Records : Do_set_whyareyoukeeping(r)
    \/ \E r, o \in Records : Do_operator_assign(r, o)

Spec == Init /\ [][Next]_vars

\* --------------------------------------------- concurrent modifier calls
\* Several threads call the set_allow...() and unset_allow...() modifier
\* setters and increment_keep_count() on the one object "a".  A call is entered, then performs its
\* single store of true and returns.  Stores of the same value to the one-byte flag leave
\* that value, in whichever order they are performed.
Enter(t, op, c2) ==
    /\ ncalls < MaxCalls
    /\ pc[t] = "idle"
    /\ pc' = [pc EXCEPT ![t] = op]
    /\ calls' = [calls EXCEPT !["a"] = c2]
    /\ ncalls' = ncalls + 1
    /\ UNCHANGED <<rs, last, loc>>

Exec(t, op, s2) ==
    /\ pc[t] = op
    /\ rs' = [rs EXCEPT !["a"] = s2]
    /\ last' = [ op |-> op, rec |-> "a", arg |-> FALSE, pre |-> rs["a"],
                 src |-> "a", after_clear |-> FALSE ]
    /\ pc' = [pc EXCEPT ![t] = "idle"]
    /\ UNCHANGED <<calls, loc, ncalls>>

Enter_set_allowshrinking(t) ==
    Enter(t, "set_allowshrinking",
          [Other(calls["a"]) EXCEPT !.set_shr = TRUE])

Enter_unset_allowshrinking(t) ==
    Enter(t, "unset_allowshrinking",
          [Other(calls["a"]) EXCEPT !.unset_shr = TRUE, !.unset_shr_cur = TRUE])

Exec_set_allowshrinking(t) ==
    Exec(t, "set_allowshrinking", set_allowshrinking(rs["a"]))

Exec_unset_allowshrinking(t) ==
    Exec(t, "unset_allowshrinking", unset_allowshrinking(rs["a"]))

Enter_set_allowobfuscation(t) ==
    Enter(t, "set_allowobfuscation", Other(calls["a"]))

Enter_unset_allowobfuscation(t) ==
    Enter(t, "unset_allowobfuscation",
          [Other(calls["a"]) EXCEPT !.unset_obf = TRUE, !.unset_obf_cur = TRUE])

Exec_set_allowobfuscation(t) ==
    Exec(t, "set_allowobfuscation", set_allowobfuscation(rs["a"]))

Exec_unset_allowobfuscation(t) ==
    Exec(t, "unset_allowobfuscation", unset_allowobfuscation(rs["a"]))

\* m_keep_count++ on the std::atomic is one atomic read-modify-write.
Enter_increment_keep_count(t) ==
    Enter(t, "increment_keep_count",
          [Other(calls["a"]) EXCEPT
              !.incs = Min(calls["a"].incs + 1, MaxCalls + 1)])

\* Variant of the increment: a plain load, add and store.  When another
\* thread is inside the increment as well, both have loaded the same value
\* and this thread's store adds nothing to the other's.
Exec_increment_keep_count_lost_update(t) ==
    Exec(t, "increment_keep_count",
         IF \E u \in Threads \ {t} : pc[u] = "increment_keep_count"
         THEN rs["a"]
         ELSE increment_keep_count(rs["a"]))

Exec_increment_keep_count(t) ==
    Exec(t, "increment_keep_count", increment_keep_count(rs["a"]))

NextShrink ==
    \/ \E t \in Threads : Enter_set_allowshrinking(t)
    \/ \E t \in Threads : Enter_unset_allowshrinking(t)
    \/ \E t \in Threads : Exec_set_allowshrinking(t)
    \/ \E t \in Threads : Exec_unset_allowshrinking(t)
    \/ \E t \in Threads : Enter_set_allowobfuscation(t)
    \/ \E t \in Threads : Enter_unset_allowobfuscation(t)
    \/ \E t \in Threads : Exec_set_allowobfuscation(t)
    \/ \E t \in Threads : Exec_unset_allowobfuscation(t)
    \/ \E t \in Threads : Enter_increment_keep_count(t)
    \/ \E t \in Threads : Exec_increment_keep_count(t)

SpecShrink == Init /\ [][NextShrink]_vars

\* No call is in progress.
Quiescent == \A t \in Threads : pc[t] = "idle"

\* ------------------------------------------ concurrent reference recording
\* Several threads call ref_by_type(), ref_by_string() and
\* clear_if_compute() on the one object "a".  The members are plain bools,
\* so a call is a sequence of separate loads and stores that interleave
\* with those of the other threads:
\*   ref_by_type        store m_bytype
\*   ref_by_string      store m_bystring, store m_bytype, and load
\*                      m_computed followed by store m_computed; the
\*                      statements touch different members and may be
\*                      performed in any order
\*   clear_if_compute   load m_computed, then, if it was true, store
\*                      m_bystring and store m_bytype in any order
\* In m_bytype = m_bystring = v the value stored into m_bytype is v or, when
\* m_bystring is read back after its store, what m_bystring then holds.
Begin(t, op, arg, todo, c2) ==
    /\ ncalls < MaxCalls
    /\ pc[t] = "idle"
    /\ pc' = [pc EXCEPT ![t] = op]
    /\ loc' = [loc EXCEPT ![t] = [arg |-> arg, tmp |-> FALSE, todo |-> todo]]
    /\ calls' = [calls EXCEPT !["a"] = c2]
    /\ ncalls' = ncalls + 1
    /\ UNCHANGED <<rs, last>>

Begin_ref_by_type(t) ==
    Begin(t, "ref_by_type", FALSE, {"st_bytype"},
          [calls["a"] EXCEPT !.typ = TRUE])

Begin_ref_by_string(t, from_code) ==
    Begin(t, "ref_by_string", from_code,
          {"st_bystring", "st_bytype", "ld_computed"},
          IF from_code
          THEN [calls["a"] EXCEPT !.str_code = TRUE]
          ELSE [calls["a"] EXCEPT !.str_other = TRUE])

Begin_clear_if_compute(t) ==
    Begin(t, "clear_if_compute", FALSE, {"ld_computed"}, calls["a"])

\* Thread t performs the load or store m of the call it is inside, which
\* leaves record s2 and the loaded value tmp2 and makes the loads and stores
\* in more due.  The call returns with its last load or store; last.pre is
\* then the record before that one.
Access(t, m, s2, tmp2, more) ==
    /\ pc[t] \in {"ref_by_type", "ref_by_string", "clear_if_compute"}
    /\ m \in loc[t].todo
    /\ rs' = [rs EXCEPT !["a"] = s2]
    /\ LET todo2 == (loc[t].todo \ {m}) \cup more
       IN  IF todo2 = {}
           THEN /\ pc' = [pc EXCEPT ![t] = "idle"]
                /\ loc' = [loc EXCEPT ![t] = NoLocals]
                /\ last' = [ op |-> pc[t], rec |-> "a", arg |-> loc[t].arg,
                             pre |-> rs["a"], src |-> "a",
                             after_clear |-> FALSE ]
           ELSE /\ pc' = pc
                /\ loc' = [loc EXCEPT ![t] = [arg |-> loc[t].arg,
                                               tmp |-> tmp2,
                                               todo |-> todo2]]
                /\ last' = last
    /\ UNCHANGED <<calls, ncalls>>

\* The value the call thread t is inside stores into the reference flags.
Flag(t) == pc[t] # "clear_if_compute"

Store_bystring(t) ==
    Access(t, "st_bystring", [rs["a"] EXCEPT !.m_bystring = Flag(t)],
           loc[t].tmp, {})

Store_bytype(t) ==
    \E v \in {Flag(t)} \cup
              (IF pc[t] # "ref_by_type" /\ "st_bystring" \notin loc[t].todo
               THEN {rs["a"].m_bystring}
               ELSE {}) :
        Access(t, "st_bytype", [rs["a"] EXCEPT !.m_bytype = v],
               loc[t].tmp, {})

Load_computed(t) ==
    Access(t, "ld_computed", rs["a"], rs["a"].m_computed,
           IF pc[t] = "ref_by_string"
           THEN {"st_computed"}
           ELSE IF rs["a"].m_computed
                THEN {"st_bystring", "st_bytype"}
                ELSE {})

\* Variant of the store: from_code is not taken into account.
Store_computed_ignores_from_code(t) ==
    Access(t, "st_computed",
           [rs["a"] EXCEPT !.m_computed = loc[t].tmp],
           loc[t].tmp, {})

Store_computed(t) ==
    Access(t, "st_computed",
           [rs["a"] EXCEPT !.m_computed = loc[t].tmp /\ loc[t].arg],
           loc[t].tmp, {})

\* The reference recorders and the shrinking modifier setters, concurrently.
NextRefs ==
    \/ \E t \in Threads : Begin_ref_by_type(t)
    \/ \E t \in Threads, from_code \in BOOLEAN : Begin_ref_by_string(t, from_code)
    \/ \E t \in Threads : Store_bystring(t)
    \/ \E t \in Threads : Store_bytype(t)
    \/ \E t \in Threads : Load_computed(t)
    \/ \E t \in Threads : Store_computed(t)
    \/ \E t \in Threads : Enter_set_allowshrinking(t)
    \/ \E t \in Threads : Enter_unset_allowshrinking(t)
    \/ \E t \in Threads : Exec_set_allowshrinking(t)
    \/ \E t \in Threads : Exec_unset_allowshrinking(t)

SpecRefs == Init /\ [][NextRefs]_vars

\* clear_if_compute() and ref_by_string(false), concurrently.
NextClear ==
    \/ \E t \in Threads : Begin_clear_if_compute(t)
    \/ \E t \in Threads : Begin_ref_by_string(t, FALSE)
    \/ \E t \in Threads : Store_bystring(t)
    \/ \E t \in Threads : Store_bytype(t)
    \/ \E t \in Threads : Load_computed(t)
    \/ \E t \in Threads : Store_computed(t)

SpecClear == Init /\ [][NextClear]_vars

\* The record every sequential order of the calls made so far on the new
\* object "a" leaves, when they are calls of ref_by_type, ref_by_string,
\* set_allowshrinking and unset_allowshrinking: these set flags to true and
\* and m_computed with from_code, so the order does not matter.
SequentialResult ==
    [InitRecord EXCEPT
        !.m_bytype = calls["a"].typ \/ calls["a"].str_code
                        \/ calls["a"].str_other,
        !.m_bystring = calls["a"].str_code \/ calls["a"].str_other,
        !.m_computed = ~calls["a"].str_other,
        !.m_set_allowshrinking = calls["a"].set_shr,
        !.m_unset_allowshrinking = calls["a"].unset_shr]

\* ------------------------------------------------- the counter at its limit
\* Calls on the one object "a", which is either new or has had
\* increment_keep_count() called 2^32 - 1 times, so that m_keep_count holds
\* the largest unsigned int.
ManyIncrements == [Other(NoCalls) EXCEPT !.incs = MaxCalls + 1]

InitCount ==
    /\ \E full \in BOOLEAN :
          /\ rs = [r \in Records |->
                     IF full /\ r = "a"
                     THEN [InitRecord EXCEPT !.m_keep_count = UIntMax]
                     ELSE InitRecord]
          /\ calls = [r \in Records |->
                     IF full /\ r = "a" THEN ManyIncrements ELSE NoCalls]
    /\ last = NoCall
    /\ pc = [t \in Threads |-> "idle"]
    /\ loc = [t \in Threads |-> NoLocals]
    /\ ncalls = 0

NextCount ==
    \/ \E from_code \in BOOLEAN : Do_ref_by_string("a", from_code)
    \/ Do_ref_by_type("a")
    \/ Do_clear_if_compute("a")
    \/ Do_set_keep("a")
    \/ Do_set_keep_name("a")
    \/ Do_set_allowshrinking("a")
    \/ Do_unset_allowshrinking("a")
    \/ Do_set_allowobfuscation("a")
    \/ Do_unset_allowobfuscation("a")
    \/ Do_set_assumenosideeffects("a")
    \/ Do_set_blanket_keepnames("a")
    \/ Do_increment_keep_count("a")
    \/ Do_set_whyareyoukeeping("a")

SpecCount == InitCount /\ [][NextCount]_vars

\* ------------------------------------------------------------ properties
\* The part of a record that is neither a reference flag nor m_computed:
\* the keep flags, the modifier bits and the counter.
KeepPart(s) ==
    [ m_keep |-> s.m_keep,
      m_assumenosideeffects |-> s.m_assumenosideeffects,
      m_blanket_keepnames |-> s.m_blanket_keepnames,
      m_whyareyoukeeping |-> s.m_whyareyoukeeping,
      m_set_allowshrinking |-> s.m_set_allowshrinking,
      m_unset_allowshrinking |-> s.m_unset_allowshrinking,
      m_set_allowobfuscation |-> s.m_set_allowobfuscation,
      m_unset_allowobfuscation |-> s.m_unset_allowobfuscation,
      m_keep_name |-> s.m_keep_name,
      m_keep_count |-> s.m_keep_count ]

\* The record the last call was made on, as that call left it.
LastRecord == rs[last.rec]

\* C1: after every call of any sequence of operations on the records,
\* copy-assignment included, a record that is referenced by string is
\* referenced by type.
C1_StringImpliesType ==
    \A r \in Records :
        is_referenced_by_string(rs[r]) => is_referenced_by_type(rs[r])

\* ref_by_string has just run on a record that was not referenced at all.
C1_Witness ==
    /\ last.op = "ref_by_string"
    /\ ~last.pre.m_bytype
    /\ is_referenced_by_string(LastRecord)

C3_CanDelete ==
    \A r \in Records :
        /\ is_referenced_by_type(rs[r]) => ~can_delete(rs[r])
        /\ (~is_referenced_by_type(rs[r]) /\ ~keep(rs[r])) => can_delete(rs[r])
        /\ (~is_referenced_by_type(rs[r]) /\ keep(rs[r]))
               => (can_delete(rs[r]) <=> allowshrinking(rs[r]))

\* A kept, unreferenced record that allows shrinking can be deleted.
C3_Witness ==
    \E r \in Records :
        /\ ~is_referenced_by_type(rs[r])
        /\ keep(rs[r])
        /\ allowshrinking(rs[r])
        /\ can_delete(rs[r])

\* C4: can_rename() holds exactly when the name is not kept, the record is
\* not referenced by string, it is not kept or allows obfuscation, and it
\* does not allow shrinking; so it is false whenever allowshrinking() holds.
C4_CanRename ==
    \A r \in Records :
        /\ can_rename(rs[r]) <=>
               /\ ~rs[r].m_keep_name
               /\ ~is_referenced_by_string(rs[r])
               /\ (~keep(rs[r]) \/ allowobfuscation(rs[r]))
               /\ ~allowshrinking(rs[r])
        /\ allowshrinking(rs[r]) => ~can_rename(rs[r])

\* A kept record that allows obfuscation and shrinking: only the shrinking
\* modifier stands in the way of renaming.
C4_Witness ==
    \E r \in Records :
        /\ ~rs[r].m_keep_name
        /\ ~is_referenced_by_string(rs[r])
        /\ keep(rs[r])
        /\ allowobfuscation(rs[r])
        /\ allowshrinking(rs[r])
        /\ ~can_rename(rs[r])

\* C5: whenever no call is in progress, after any interleaving of
\* set_allowshrinking() and unset_allowshrinking() calls of several threads
\* on a new record (calls on the obfuscation pair may come in between), allowshrinking() holds exactly if set_allowshrinking()
\* was called and unset_allowshrinking() was not.
C5_ShrinkingOrderIndependent ==
    Quiescent =>
        (allowshrinking(rs["a"]) <=>
            (calls["a"].set_shr /\ ~calls["a"].unset_shr))

\* set_allowshrinking() has completed last, after unset_allowshrinking(),
\* with calls repeated, and shrinking is not allowed.
C5_Witness ==
    /\ Quiescent
    /\ last.op = "set_allowshrinking"
    /\ last.pre.m_unset_allowshrinking
    /\ last.pre.m_set_allowshrinking
    /\ calls["a"].set_shr
    /\ calls["a"].unset_shr
    /\ ~allowshrinking(rs["a"])

\* C6 as stated: once unset_allowshrinking (unset_allowobfuscation) has
\* been called on a record, allowshrinking() (allowobfuscation()) is false
\* in every later state of the record.
C6_UnsetIsPermanent ==
    \A r \in Records :
        /\ calls[r].unset_shr => ~allowshrinking(rs[r])
        /\ calls[r].unset_obf => ~allowobfuscation(rs[r])

\* C6, amended: once unset_allowshrinking (unset_allowobfuscation) has been
\* called on a record, allowshrinking() (allowobfuscation()) is false in
\* every later state up to the next copy-assignment into the record.
C6_UnsetDominates ==
    \A r \in Records :
        /\ calls[r].unset_shr_cur => ~allowshrinking(rs[r])
        /\ calls[r].unset_obf_cur => ~allowobfuscation(rs[r])

\* set_allowshrinking has just run on a record on which
\* unset_allowshrinking was called before.
C6_Witness ==
    /\ last.op = "set_allowshrinking"
    /\ calls[last.rec].unset_shr_cur
    /\ LastRecord.m_set_allowshrinking
    /\ ~allowshrinking(LastRecord)

\* C7: clear_if_compute() on a record with m_computed true leaves both
\* reference flags false, on a record with m_computed false changes
\* nothing, and in both cases leaves m_computed, the keep flags, the
\* modifier bits and the counter as they were.
C7_ClearIfCompute ==
    last.op = "clear_if_compute" =>
        /\ LastRecord.m_computed = last.pre.m_computed
        /\ KeepPart(LastRecord) = KeepPart(last.pre)
        /\ last.pre.m_computed =>
               ~LastRecord.m_bytype /\ ~LastRecord.m_bystring
        /\ ~last.pre.m_computed => LastRecord = last.pre

\* clear_if_compute() has just cleared a record that was referenced by
\* string and has a keep flag set.
C7_Witness ==
    /\ last.op = "clear_if_compute"
    /\ last.pre.m_computed
    /\ last.pre.m_bystring
    /\ last.pre.m_keep
    /\ ~LastRecord.m_bytype

\* C8: on a record on which only reference-recording calls and clears were
\* made: with m_computed true, clear_if_compute() followed by ref_by_type()
\* gives the record of a new object on which only ref_by_type() was
\* called; with m_computed false, clear_if_compute() leaves the reference
\* flags as they are.
C8_ClearThenRecord ==
    /\ \A r \in Records :
          /\ (calls[r].only_refs /\ rs[r].m_computed)
                 => ref_by_type(clear_if_compute(rs[r])) = ref_by_type(InitRecord)
          /\ ~rs[r].m_computed =>
                 /\ clear_if_compute(rs[r]).m_bytype = rs[r].m_bytype
                 /\ clear_if_compute(rs[r]).m_bystring = rs[r].m_bystring
    /\ ( /\ last.op = "ref_by_type"
         /\ last.after_clear
         /\ calls[last.rec].only_refs
         /\ LastRecord.m_computed )
           => LastRecord = ref_by_type(InitRecord)

\* ref_by_type() has just run after clear_if_compute() on a record that had
\* been referenced by string from code.
C8_Witness ==
    /\ last.op = "ref_by_type"
    /\ last.after_clear
    /\ calls[last.rec].only_refs
    /\ LastRecord.m_computed
    /\ calls[last.rec].str_code
    /\ ~last.pre.m_bytype
    /\ LastRecord = ref_by_type(InitRecord)

\* C9: ref_by_string(from_code) leaves both reference flags true and
\* m_computed equal to its previous value and from_code, leaves the keep
\* flags, the modifier bits and the counter as they were, and a second call
\* with the same argument changes nothing.
C9_RefByString ==
    last.op = "ref_by_string" =>
        /\ LastRecord.m_bytype
        /\ LastRecord.m_bystring
        /\ LastRecord.m_computed <=> (last.pre.m_computed /\ last.arg)
        /\ ~last.arg => ~LastRecord.m_computed
        /\ last.arg => (LastRecord.m_computed <=> last.pre.m_computed)
        /\ KeepPart(LastRecord) = KeepPart(last.pre)
        /\ ref_by_string(LastRecord, last.arg) = LastRecord

\* ref_by_string(true) has just run on a record with m_computed true and a
\* non-zero counter, and m_computed is still true.
C9_Witness ==
    /\ last.op = "ref_by_string"
    /\ last.arg
    /\ last.pre.m_computed
    /\ last.pre.m_keep_count = UIntOne
    /\ LastRecord.m_computed
    /\ LastRecord.m_bystring

\* C10: is_blanket_names_kept() holds only if m_blanket_keepnames is true
\* and increment_keep_count() has been called exactly once on the record;
\* it is false before the first call and after the second and any later
\* call, however many there are.
C10_BlanketNamesKeptOnlyAfterOneIncrement ==
    \A r \in Records :
        is_blanket_names_kept(rs[r]) =>
            (rs[r].m_blanket_keepnames /\ calls[r].incs = 1)

\* C13: a copy-assignment r = o gives r's counter the value o's counter has
\* and leaves o's counter as it is; after it, and at any time,
\* increment_keep_count() on one object adds one to that object's counter
\* and leaves the counter of every other object unchanged.
C13_CountersIndependent ==
    [][ /\ (last'.op = "operator_assign" /\ last'.src # last'.rec) =>
              /\ rs'[last'.rec].m_keep_count = rs[last'.src].m_keep_count
              /\ rs'[last'.src].m_keep_count = rs[last'.src].m_keep_count
        /\ last'.op = "increment_keep_count" =>
              /\ rs'[last'.rec].m_keep_count
                     = UIntInc(rs[last'.rec].m_keep_count)
              /\ \A o \in Records \ {last'.rec} :
                     rs'[o].m_keep_count = rs[o].m_keep_count
      ]_vars

\* increment_keep_count() has just run for the first time on an object
\* that got the count 1 by assignment: its counter is 2, the source's is 1.
C13_Witness ==
    /\ last.op = "increment_keep_count"
    /\ calls[last.rec].incs = 1
    /\ last.pre.m_keep_count = UIntOne
    /\ LastRecord.m_keep_count = UIntInc(UIntOne)
    /\ \E o \in Records \ {last.rec} : rs[o].m_keep_count = UIntOne

\* C14: a copy-assignment r = o from another object leaves r equal to o in
\* every member and the counter, hence in every derived predicate, and
\* leaves o unchanged; r = r leaves r unchanged.
C14_AssignCopiesEverything ==
    [][ last'.op = "operator_assign" =>
          IF last'.src # last'.rec
          THEN /\ rs'[last'.rec] = rs[last'.src]
               /\ rs'[last'.src] = rs[last'.src]
               /\ can_delete(rs'[last'.rec]) = can_delete(rs'[last'.src])
               /\ can_rename(rs'[last'.rec]) = can_rename(rs'[last'.src])
               /\ is_blanket_names_kept(rs'[last'.rec])
                      = is_blanket_names_kept(rs'[last'.src])
          ELSE rs' = rs
      ]_vars

\* An object with default members has just been assigned from an object
\* with a string reference not from code and the count 1.
C14_Witness ==
    /\ last.op = "operator_assign"
    /\ last.src # last.rec
    /\ last.pre = InitRecord
    /\ LastRecord.m_bystring
    /\ ~LastRecord.m_computed
    /\ LastRecord.m_keep_count = UIntOne
    /\ LastRecord = rs[last.src]

SetterFrame ==
    /\ last.op = "set_keep" =>
          /\ LastRecord = [last.pre EXCEPT !.m_keep = TRUE]
          /\ set_keep(LastRecord) = LastRecord
    /\ last.op = "set_keep_name" =>
          /\ LastRecord = [last.pre EXCEPT !.m_keep_name = TRUE]
          /\ set_keep_name(LastRecord) = LastRecord
    /\ last.op = "set_assumenosideeffects" =>
          /\ LastRecord = [last.pre EXCEPT !.m_assumenosideeffects = TRUE]
          /\ set_assumenosideeffects(LastRecord) = LastRecord
    /\ last.op = "set_blanket_keepnames" =>
          /\ LastRecord = [last.pre EXCEPT !.m_blanket_keepnames = TRUE]
          /\ set_blanket_keepnames(LastRecord) = LastRecord
    /\ last.op = "set_whyareyoukeeping" =>
          /\ LastRecord = [last.pre EXCEPT !.m_whyareyoukeeping = TRUE]
          /\ set_whyareyoukeeping(LastRecord) = LastRecord

\* The five keep flags of a record.
KeepFlags(s) ==
    <<s.m_keep, s.m_keep_name, s.m_assumenosideeffects,
      s.m_blanket_keepnames, s.m_whyareyoukeeping>>

\* Every keep flag that is true in s is true in s2.
KeepFlagsStay(s, s2) ==
    \A i \in 1..5 : KeepFlags(s)[i] => KeepFlags(s2)[i]

\* C16 as stated: each of the five keep setters sets its own flag and
\* nothing else and is idempotent, and no operation takes one of the five
\* flags from true to false.
C16_KeepFlagsNeverCleared ==
    [][ /\ SetterFrame'
        /\ \A r \in Records : KeepFlagsStay(rs[r], rs'[r])
      ]_vars

\* C16, amended: each of the five keep setters sets its own flag and
\* nothing else and is idempotent, and no operation other than a
\* copy-assignment into the record takes one of the five flags from true
\* to false.
C16_KeepSetters ==
    [][ /\ SetterFrame'
        /\ \A r \in Records :
              ~(last'.op = "operator_assign" /\ last'.rec = r)
                  => KeepFlagsStay(rs[r], rs'[r])
      ]_vars

\* set_keep_name() has just run a second time, on a record that is
\* counted but not kept.
C16_Witness ==
    /\ last.op = "set_keep_name"
    /\ last.pre.m_keep_name
    /\ LastRecord = last.pre
    /\ ~LastRecord.m_keep
    /\ LastRecord.m_keep_count = UIntOne

\* C17: ref_by_type() leaves m_bytype true and m_bystring, m_computed, the
\* keep flags, the modifier bits and the counter as they were, and a second
\* call changes nothing.
C17_RefByType ==
    last.op = "ref_by_type" =>
        /\ LastRecord.m_bytype
        /\ LastRecord.m_bystring = last.pre.m_bystring
        /\ LastRecord.m_computed = last.pre.m_computed
        /\ KeepPart(LastRecord) = KeepPart(last.pre)
        /\ ref_by_type(LastRecord) = LastRecord

\* ref_by_type() has just run on an unreferenced record with a keep flag
\* and the count 1.
C17_Witness ==
    /\ last.op = "ref_by_type"
    /\ ~last.pre.m_bytype
    /\ last.pre.m_keep
    /\ last.pre.m_keep_count = UIntOne
    /\ LastRecord.m_bytype
    /\ ~LastRecord.m_bystring

\* C18: once ref_by_string(false) has been called on a record, then after
\* any calls of ref_by_type, ref_by_string, clear_if_compute, the keep and
\* modifier setters and increment_keep_count, the record is referenced by
\* type and by string and can neither be deleted nor renamed.
C18_Pinned ==
    \A r \in Records :
        calls[r].str_other =>
            /\ is_referenced_by_type(rs[r])
            /\ is_referenced_by_string(rs[r])
            /\ ~can_delete(rs[r])
            /\ ~can_rename(rs[r])

\* clear_if_compute() has just run on a record pinned by
\* ref_by_string(false) that no keep rule protects.
C18_Witness ==
    /\ last.op = "clear_if_compute"
    /\ calls[last.rec].str_other
    /\ ~last.pre.m_computed
    /\ ~LastRecord.m_keep
    /\ ~LastRecord.m_keep_name
    /\ LastRecord.m_bystring

\* C11: whenever no call is in progress, after any interleaving of N
\* increment_keep_count() calls of several threads on a new record,
\* m_keep_count is N.
C11_NoLostIncrement ==
    Quiescent =>
        /\ calls["a"].incs <= MaxCalls
        /\ rs["a"].m_keep_count = [hi |-> 0, lo |-> calls["a"].incs]

\* The second of two increment_keep_count() calls has completed and both
\* are counted.
C11_Witness ==
    /\ Quiescent
    /\ last.op = "increment_keep_count"
    /\ last.pre.m_keep_count = UIntOne
    /\ calls["a"].incs = 2
    /\ ncalls = 2
    /\ rs["a"].m_keep_count = UIntInc(UIntOne)

\* C12: whenever no call is in progress, after any interleaving of
\* ref_by_type(), ref_by_string() and modifier setter calls of several
\* threads on a new record, the record is the one a sequential execution
\* of these calls leaves; so m_computed is false if ref_by_string(false)
\* was among them.
C12_ConcurrentWritersSerializable ==
    Quiescent =>
        /\ rs["a"] = SequentialResult
        /\ calls["a"].str_other => ~rs["a"].m_computed

\* C19 as stated: whenever clear_if_compute() and ref_by_string(false)
\* calls of several threads have all returned, a record referenced by
\* string is referenced by type, and a record with m_computed false is
\* referenced by string.
C19_MisuseStaysSequential ==
    Quiescent =>
        /\ rs["a"].m_bystring => rs["a"].m_bytype
        /\ ~rs["a"].m_computed => rs["a"].m_bystring

\* C19, amended: whenever clear_if_compute() and ref_by_string(false) calls
\* of several threads have all returned and ref_by_string(false) was among
\* them, m_computed is false and the keep flags, modifier bits and counter
\* are untouched; the reference flags may hold any values.
C19_MisuseLeavesNonComputed ==
    (Quiescent /\ calls["a"].str_other) =>
        /\ ~rs["a"].m_computed
        /\ KeepPart(rs["a"]) = KeepPart(InitRecord)

\* All calls have returned, ref_by_string(false) was among them, and the
\* record is not computed and yet referenced by string without being
\* referenced by type.
C19_Witness ==
    /\ Quiescent
    /\ calls["a"].str_other
    /\ ~rs["a"].m_computed
    /\ rs["a"].m_bystring
    /\ ~rs["a"].m_bytype

====
